---- MODULE Spec2Model ----
(***************************************************************************)
(* The dependency visitor of css-module-lexer (src/src/dependencies.rs),   *)
(* LexDependencies, as a state machine driven by the token events of one   *)
(* lexing pass.                                                            *)
(*                                                                         *)
(* One step of the model is one Visitor callback, sub-parser included.     *)
(* The source text is revealed as the pass goes: every step chooses the    *)
(* next token (kind, name, offsets) and, where a sub-parser reads the      *)
(* lexer itself, the characters it meets.  Offsets count source units: a   *)
(* punctuation character, a quote, a hyphen or a blank is one unit, and so *)
(* is a piece of text the visitor never splits (a name, `@import`, `url(`  *)
(* of an unquoted url), so that the code's offset arithmetic (start + 1,   *)
(* end - 1, minus_start + 2) is kept as written.                           *)
(*                                                                         *)
(* dependencies and warnings hold what the LAST callback handed to         *)
(* handle_dependency and handle_warning, in order; ev is that callback.    *)
(* hist is a history variable: facts about the token stream that the       *)
(* properties speak of and the visitor itself does not store.              *)
(***************************************************************************)
EXTENDS Integers, Sequences, FiniteSets

\* ------------------------------------------------------------- bounds
\* Length of the source text, in units: the input ends at offset SrcLen.
SrcLen == 7

\* Units by which a source lexed without CSS Modules may be longer.
MoreLen == 1
\* Blanks or comments the lexer skips before a token.
MaxGap == 1
\* Brackets open at once (the length of balanced).
MaxDepth == 2
\* Blocks open at once (block_nesting_level).
MaxNest == 2

\* ------------------------------------------------------ option, range
None == <<>>
Some(x) == <<x>>
is_some(o) == o # <<>>
unwrap(o) == o[1]

Range(start, end) == [start |-> start, end |-> end]

\* lexer.slice(start, end): the text is named by its offsets; the only
\* fact about its content the visitor's results depend on is emptiness.
slice(start, end) == <<start, end>>
EmptyStr == <<0, 0>>
is_empty(s) == s[1] = s[2]

\* ---------------------------------------------------------- token names
AtKeywordNames == {"@import", "@IMPORT", "@namespace", "@media"}
FunctionNames == {"url", "image-set", "layer", "supports", "var"}
PseudoFunctionNames == {":local", ":global", ":not"}
PseudoClassNames == {":local", ":global", ":export"}
IdentNames == {"layer", "--x", "red"}

\* str::to_ascii_lowercase on the names above.
to_ascii_lowercase(name) ==
    CASE name = "@IMPORT" -> "@import"
      [] OTHER -> name

\* ------------------------------------------------------------- types
BalancedItemKind_new(name) ==
    CASE name = "url" -> "Url"
      [] name = "image-set" -> "ImageSet"
      [] name = "layer" -> "Layer"
      [] name = "supports" -> "Supports"
      [] name = ":local" -> "Local"
      [] name = ":global" -> "Global"
      [] OTHER -> "Other"

BalancedItem_new(name, start, end) ==
    [kind |-> BalancedItemKind_new(name), range |-> Range(start, end)]

BalancedItem_new_other(start, end) ==
    [kind |-> "Other", range |-> Range(start, end)]

\* Variant of ImportData_new: the rule starts after the `@`.
ImportData_new_after(start) ==
    [start |-> start + 1, url |-> None, url_range |-> None,
     supports |-> [tag |-> "None"], layer |-> [tag |-> "None"]]

ImportData_new(start) ==
    [start |-> start, url |-> None, url_range |-> None,
     supports |-> [tag |-> "None"], layer |-> [tag |-> "None"]]

in_supports(d) == d.supports.tag = "InSupports"

layer_range(d) ==
    IF d.layer.tag = "EndLayer" THEN Some(d.layer.range) ELSE None

supports_range(d) ==
    IF d.supports.tag = "EndSupports" THEN Some(d.supports.range) ELSE None

TopLevel == [kind |-> "TopLevel"]
InBlock == [kind |-> "InBlock"]
InAtImport(d) == [kind |-> "InAtImport", data |-> d]
AtImportInvalid == [kind |-> "AtImportInvalid"]
AtNamespaceInvalid == [kind |-> "AtNamespaceInvalid"]

CssModulesModeData_new(local) ==
    [default |-> IF local THEN "Local" ELSE "Global", current |-> "None"]

is_local_mode(m) ==
    CASE m.current = "Local" -> TRUE
      [] m.current = "Global" -> FALSE
      [] OTHER -> m.default = "Local"

\* ------------------------------------------------------------- state
VARIABLES
    mode_data,              \* Option<CssModulesModeData>
    scope,                  \* Scope, InAtImport carrying its ImportData
    block_nesting_level,
    allow_import_at_rule,
    balanced,               \* Vec<BalancedItem>
    is_next_rule_prelude,
    pos,                    \* the lexer's cursor (cur_pos)
    ink,                    \* end of the last unit read that is no blank or comment
    ahead,                  \* the character a sub-parser left at the cursor, "" if none
    pc,                     \* "lex": the pass runs; "export": inside :export { };
                            \* "done": a callback returned None, the pass is over
    ev,                     \* the last callback
    dependencies,           \* what it gave handle_dependency
    warnings,               \* what it gave handle_warning
    hist

\* The offset at which the input ends: sources lexed without CSS Modules
\* are taken up to MoreLen units longer than the others.
SourceEnd == IF mode_data = <<>> THEN SrcLen + MoreLen ELSE SrcLen

vars == <<mode_data, scope, block_nesting_level, allow_import_at_rule, balanced,
          is_next_rule_prelude, pos, ink, ahead, pc, ev, dependencies, warnings,
          hist>>

visitor == <<mode_data, scope, block_nesting_level, allow_import_at_rule,
             balanced, is_next_rule_prelude>>

Event(kind, name, start, end) ==
    [kind |-> kind, name |-> name, start |-> start, end |-> end]

\* hist.rule: "import" from an @import that opened InAtImport to the next
\* at-keyword that changes the scope, "ended" right after the `;` that ended
\* it; hist.start: the offset of that @import. Since it opened, outside
\* supports(...): sources counts the url(...) tokens and the strings directly
\* inside `url(`, plain tells whether a string outside `url(` was met, dups
\* counts the DuplicateUrl warnings.
\* hist.curly: a `{` opened a block: it was met as a token at top level or
\* in a block, or read by the :export sub-parser.
\* hist.span: the innermost open `:global(` has met no `:local` since.
\* hist.gaps: the offsets, from hist.start on, of the blanks and comments the
\* lexer skipped before the tokens of the @import rule.
\* hist.rule is "inner" from an @import or @namespace at-keyword met inside a
\* block to its `;`, and "inner_ended" right after that `;`.
\* hist.was: for every `:local(` and `:global(` still open (CSS Modules
\* enabled), in the order of the stack, the locality in effect right before
\* it was opened; hist.closed: that locality for the pseudo-function the last
\* callback closed, "-" when it closed none.
NoHist ==
    [rule |-> "none", start |-> 0, sources |-> 0, plain |-> FALSE, dups |-> 0,
     curly |-> FALSE, span |-> FALSE, gaps |-> {}, was |-> <<>>, closed |-> "-"]

Init ==
    /\ mode_data \in {None, Some(CssModulesModeData_new(TRUE)),
                      Some(CssModulesModeData_new(FALSE))}
    /\ scope = TopLevel
    /\ block_nesting_level = 0
    /\ allow_import_at_rule = TRUE
    /\ balanced = <<>>
    /\ is_next_rule_prelude = TRUE
    /\ pos = 0
    /\ ink = 0
    /\ ahead = ""
    /\ pc = "lex"
    /\ ev = Event("start", "", 0, 0)
    /\ dependencies = <<>>
    /\ warnings = <<>>
    /\ hist = NoHist

\* ------------------------------------------------------------ records
Url(request, range, kind) ==
    [t |-> "Url", request |-> request, range |-> range, kind |-> kind]
Import(request, range, layer, supports, media) ==
    [t |-> "Import", request |-> request, range |-> range, layer |-> layer,
     supports |-> supports, media |-> media]
Replace(content, range) == [t |-> "Replace", content |-> content, range |-> range]
LocalIdent(name, range) == [t |-> "LocalIdent", name |-> name, range |-> range]
LocalVar(name, range) == [t |-> "LocalVar", name |-> name, range |-> range]
LocalVarDecl(name_range, name, value) ==
    [t |-> "LocalVarDecl", name_range |-> name_range, name |-> name, value |-> value]
ICSSExport(prop, value) == [t |-> "ICSSExport", prop |-> prop, value |-> value]

Unexpected(unexpected, range) ==
    [t |-> "Unexpected", unexpected |-> unexpected, range |-> range]
DuplicateUrl(range) == [t |-> "DuplicateUrl", range |-> range]
NamespaceNotSupportedInBundledCss(range) ==
    [t |-> "NamespaceNotSupportedInBundledCss", range |-> range]
NotPrecededAtImport(range) == [t |-> "NotPrecededAtImport", range |-> range]
ExpectedUrl(range) == [t |-> "ExpectedUrl", range |-> range]
ExpectedBefore(should_after, range) ==
    [t |-> "ExpectedBefore", should_after |-> should_after, range |-> range]

Count(seq, tag) == Cardinality({i \in DOMAIN seq : seq[i].t = tag})
Has(seq, tag) == \E i \in DOMAIN seq : seq[i].t = tag

\* ------------------------------------------------------- the lexer side
\* The lexer finds a token at start..end: after at most MaxGap blanks, or at
\* the cursor when a sub-parser stopped on the token's first character
\* (ahead; "x" is a character known only to be no blank).
Lexes(first, start, end) ==
    /\ pc = "lex"
    /\ start \in pos..(pos + MaxGap)
    /\ ahead # "" => (start = pos /\ ahead \in {"x", first})
    /\ end <= SourceEnd

\* get_media: None when the slice holds nothing but blanks and comments,
\* which is when no unit that is neither ends after start.
get_media(start, end) ==
    IF start <= end /\ ink > start THEN Some(slice(start, end)) ELSE None

\* ------------------------------------------------------- history
\* The locality in effect, "-" without CSS Modules.
Locality ==
    IF ~is_some(mode_data) THEN "-"
    ELSE IF is_local_mode(unwrap(mode_data)) THEN "Local" ELSE "Global"

Cap(n) == IF n > 3 THEN 3 ELSE n

HistNow ==
    IF hist.rule \in {"ended", "inner_ended"}
    THEN [hist EXCEPT !.rule = "none", !.start = 0, !.sources = 0,
                      !.plain = FALSE, !.dups = 0, !.gaps = {}, !.closed = "-"]
    ELSE [hist EXCEPT !.closed = "-"]

\* The history h after the lexer skipped the units from the cursor to start.
HistGap(h, start) ==
    IF h.rule \in {"import", "ended"}
    THEN [h EXCEPT !.gaps = @ \cup {p \in pos..(start - 1) : p >= h.start}]
    ELSE h

\* The history after a callback that met src url sources, a plain string or
\* not, and emitted warns.
HistAdd(h, src, plain, warns) ==
    IF h.rule = "import"
    THEN [h EXCEPT !.sources = Cap(@ + src),
                   !.plain = @ \/ plain,
                   !.dups = Cap(@ + Count(warns, "DuplicateUrl"))]
    ELSE h

\* A callback that leaves the cursor at the end of its token.
Returns(e, deps, warns, h) ==
    /\ ev' = e
    /\ pos' = e.end
    /\ ink' = e.end
    /\ ahead' = ""
    /\ pc' = "lex"
    /\ dependencies' = deps
    /\ warnings' = warns
    /\ hist' = HistGap(h, e.start)

\* ------------------------------------------------------------ url
\* Variant of url_InAtImport: an empty url is taken for no url.
url_InAtImport_nonempty(d, start, end, content_start, content_end) ==
    IF in_supports(d)
    THEN [data |-> d, warnings |-> <<>>]
    ELSE IF is_some(d.url)
    THEN [data |-> d, warnings |-> <<DuplicateUrl(Range(d.start, end))>>]
    ELSE IF content_start = content_end
    THEN [data |-> d, warnings |-> <<>>]
    ELSE [data |-> [d EXCEPT !.url = Some(slice(content_start, content_end)),
                             !.url_range = Some(Range(start, end))],
          warnings |-> <<>>]

\* Variant of url_InAtImport: DuplicateUrl covers the url token alone.
url_InAtImport_token(d, start, end, content_start, content_end) ==
    IF in_supports(d)
    THEN [data |-> d, warnings |-> <<>>]
    ELSE IF is_some(d.url)
    THEN [data |-> d, warnings |-> <<DuplicateUrl(Range(start, end))>>]
    ELSE [data |-> [d EXCEPT !.url = Some(slice(content_start, content_end)),
                             !.url_range = Some(Range(start, end))],
          warnings |-> <<>>]

\* url(), scope InAtImport: the import data after, and the warnings.
url_InAtImport(d, start, end, content_start, content_end) ==
    IF in_supports(d)
    THEN [data |-> d, warnings |-> <<>>]
    ELSE IF is_some(d.url)
    THEN [data |-> d, warnings |-> <<DuplicateUrl(Range(d.start, end))>>]
    ELSE [data |-> [d EXCEPT !.url = Some(slice(content_start, content_end)),
                             !.url_range = Some(Range(start, end))],
          warnings |-> <<>>]

url_InBlock(start, end, content_start, content_end) ==
    <<Url(slice(content_start, content_end), Range(start, end), "Function")>>

\* An unquoted url(...) token: `url(`, the content (empty or one unit), `)`.
url ==
    \E start \in pos..(pos + MaxGap), len \in 0..1 :
        LET content_start == start + 1
            content_end == content_start + len
            end == content_end + 1
            e == Event("url", "url", start, end)
        IN  /\ Lexes("a", start, end)
            /\ IF scope.kind = "InAtImport"
               THEN LET r == url_InAtImport(scope.data, start, end,
                                            content_start, content_end)
                    IN  /\ scope' = InAtImport(r.data)
                        /\ Returns(e, <<>>, r.warnings,
                                   HistAdd(HistNow,
                                           IF in_supports(scope.data) THEN 0 ELSE 1,
                                           FALSE, r.warnings))
               ELSE IF scope.kind = "InBlock"
               THEN /\ scope' = scope
                    /\ Returns(e, url_InBlock(start, end, content_start, content_end),
                               <<>>, HistNow)
               ELSE /\ scope' = scope
                    /\ Returns(e, <<>>, <<>>, HistNow)
            /\ UNCHANGED <<mode_data, block_nesting_level, allow_import_at_rule,
                           balanced, is_next_rule_prelude>>

\* ------------------------------------------------------------ string
inside_url ==
    Len(balanced) > 0 /\ balanced[Len(balanced)].kind = "Url"

\* Variant of string_InAtImport: strings inside supports(...) are read too.
string_InAtImport_unshielded(d, start, end) ==
    IF ~inside_url /\ is_some(d.url)
    THEN [data |-> d, warnings |-> <<>>]
    ELSE IF inside_url /\ is_some(d.url)
    THEN [data |-> d, warnings |-> <<DuplicateUrl(Range(d.start, end))>>]
    ELSE [data |-> [d EXCEPT !.url = Some(slice(start + 1, end - 1)),
                             !.url_range = IF ~inside_url
                                           THEN Some(Range(start, end))
                                           ELSE @],
          warnings |-> <<>>]

\* Variant of string_InAtImport: a string inside url( sets the range too.
string_InAtImport_ranged(d, start, end) ==
    IF in_supports(d) \/ (~inside_url /\ is_some(d.url))
    THEN [data |-> d, warnings |-> <<>>]
    ELSE IF inside_url /\ is_some(d.url)
    THEN [data |-> d, warnings |-> <<DuplicateUrl(Range(d.start, end))>>]
    ELSE [data |-> [d EXCEPT !.url = Some(slice(start + 1, end - 1)),
                             !.url_range = Some(Range(start, end))],
          warnings |-> <<>>]

\* string(), scope InAtImport: the import data after, and the warnings.
string_InAtImport(d, start, end) ==
    IF in_supports(d) \/ (~inside_url /\ is_some(d.url))
    THEN [data |-> d, warnings |-> <<>>]
    ELSE IF inside_url /\ is_some(d.url)
    THEN [data |-> d, warnings |-> <<DuplicateUrl(Range(d.start, end))>>]
    ELSE [data |-> [d EXCEPT !.url = Some(slice(start + 1, end - 1)),
                             !.url_range = IF ~inside_url
                                           THEN Some(Range(start, end))
                                           ELSE @],
          warnings |-> <<>>]

\* Variant of string_InBlock: an empty string is no url.
string_InBlock_nonempty(start, end) ==
    IF Len(balanced) = 0 \/ start + 1 = end - 1
    THEN <<>>
    ELSE LET last == balanced[Len(balanced)]
         IN  IF last.kind = "Url"
             THEN <<Url(slice(start + 1, end - 1), Range(start, end), "String")>>
             ELSE IF last.kind = "ImageSet"
             THEN <<Url(slice(start + 1, end - 1), Range(start, end), "Function")>>
             ELSE <<>>

\* string(), scope InBlock: the dependencies emitted.
string_InBlock(start, end) ==
    IF Len(balanced) = 0
    THEN <<>>
    ELSE LET last == balanced[Len(balanced)]
         IN  IF last.kind = "Url"
             THEN <<Url(slice(start + 1, end - 1), Range(start, end), "String")>>
             ELSE IF last.kind = "ImageSet"
             THEN <<Url(slice(start + 1, end - 1), Range(start, end), "Function")>>
             ELSE <<>>

\* A quoted string: the quotes and, between them, nothing or one unit.
string ==
    \E start \in pos..(pos + MaxGap), len \in 0..1 :
        LET end == start + 2 + len
            e == Event("string", "", start, end)
        IN  /\ Lexes("q", start, end)
            /\ IF scope.kind = "InAtImport"
               THEN LET r == string_InAtImport(scope.data, start, end)
                    IN  /\ scope' = InAtImport(r.data)
                        /\ Returns(e, <<>>, r.warnings,
                                   HistAdd(HistNow,
                                           IF inside_url /\ ~in_supports(scope.data)
                                           THEN 1 ELSE 0,
                                           ~inside_url /\ ~in_supports(scope.data),
                                           r.warnings))
               ELSE IF scope.kind = "InBlock"
               THEN /\ scope' = scope
                    /\ Returns(e, string_InBlock(start, end), <<>>, HistNow)
               ELSE /\ scope' = scope
                    /\ Returns(e, <<>>, <<>>, HistNow)
            /\ UNCHANGED <<mode_data, block_nesting_level, allow_import_at_rule,
                           balanced, is_next_rule_prelude>>

\* ------------------------------------------------------------ at_keyword
at_keyword_body(name0, start, end) ==
    LET name == to_ascii_lowercase(name0)
        same == [scope |-> scope, warnings |-> <<>>, prelude |-> is_next_rule_prelude]
    IN  IF name = "@namespace"
        THEN [same EXCEPT !.scope = AtNamespaceInvalid,
                          !.warnings = <<NamespaceNotSupportedInBundledCss(
                                             Range(start, end))>>]
        ELSE IF name = "@import"
        THEN IF ~allow_import_at_rule
             THEN [same EXCEPT !.scope = AtImportInvalid,
                               !.warnings = <<NotPrecededAtImport(Range(start, end))>>]
             ELSE [same EXCEPT !.scope = InAtImport(ImportData_new(start))]
        ELSE IF name \in {"@media", "@supports", "@layer", "@container"}
        THEN [same EXCEPT !.prelude = TRUE]
        ELSE same

at_keyword ==
    \E name \in AtKeywordNames, start \in pos..(pos + MaxGap) :
        LET end == start + 1
            r == at_keyword_body(name, start, end)
            h == IF r.scope = scope
                 THEN HistNow
                 ELSE [HistNow EXCEPT
                          !.rule = IF r.scope.kind = "InAtImport"
                                   THEN "import"
                                   ELSE IF scope.kind = "InBlock" \/ @ = "inner"
                                   THEN "inner" ELSE "none",
                          !.start = IF r.scope.kind = "InAtImport"
                                    THEN start ELSE 0,
                          !.sources = 0, !.plain = FALSE, !.dups = 0,
                          !.gaps = {}]
        IN  /\ Lexes("@", start, end)
            /\ scope' = r.scope
            /\ is_next_rule_prelude' = r.prelude
            /\ Returns(Event("at_keyword", name, start, end), <<>>, r.warnings, h)
            /\ UNCHANGED <<mode_data, block_nesting_level, allow_import_at_rule,
                           balanced>>

\* ------------------------------------------------------------ semicolon
\* Variant of semicolon_supports: an open supports( goes unreported.
semicolon_supports_silent(d, start, end) == <<>>

\* semicolon(), resolving supports: the warning for a supports( still open.
semicolon_supports(d, start, end) ==
    IF d.supports.tag = "InSupports"
    THEN <<Unexpected(Range(start, end), Range(d.supports.start, end))>>
    ELSE <<>>

\* Variant of semicolon_InAtImport: the layer is expected before the url.
semicolon_InAtImport_layer_first(d, start, end) ==
    LET no == [dependencies |-> <<>>, warnings |-> <<>>]
    IN
    IF ~is_some(d.url)
    THEN [no EXCEPT !.warnings = <<ExpectedUrl(Range(d.start, end))>>]
    ELSE IF ~is_some(d.url_range)
    THEN [no EXCEPT !.warnings = <<Unexpected(Range(start, end),
                                              Range(d.start, end))>>]
    ELSE
    LET request == unwrap(d.url)
        url_range == unwrap(d.url_range)
    IN
    IF d.layer.tag = "EndLayer" /\ d.layer.range.start > url_range.start
    THEN [no EXCEPT !.warnings = <<ExpectedBefore(d.layer.range, url_range)>>]
    ELSE IF d.supports.tag = "EndSupports" /\ url_range.start > d.supports.range.start
    THEN [no EXCEPT !.warnings = <<ExpectedBefore(d.supports.range, url_range)>>]
    ELSE
    LET layer == IF d.layer.tag = "EndLayer" THEN Some(d.layer.value) ELSE None
        supports == IF d.supports.tag = "EndSupports"
                    THEN Some(d.supports.value) ELSE None
        open == semicolon_supports(d, start, end)
    IN
    IF /\ is_some(layer_range(d))
       /\ is_some(supports_range(d))
       /\ unwrap(layer_range(d)).start > unwrap(supports_range(d)).start
    THEN [no EXCEPT !.warnings = open \o <<ExpectedBefore(unwrap(supports_range(d)),
                                                          unwrap(layer_range(d)))>>]
    ELSE
    LET last_end == IF is_some(supports_range(d)) THEN unwrap(supports_range(d)).end
                    ELSE IF is_some(layer_range(d)) THEN unwrap(layer_range(d)).end
                    ELSE url_range.end
        media == get_media(last_end, start)
    IN  [dependencies |-> <<Import(request, Range(d.start, end), layer, supports, media)>>,
         warnings |-> open]

\* Variant of semicolon_InAtImport: layer and supports go in either order.
semicolon_InAtImport_any_order(d, start, end) ==
    LET no == [dependencies |-> <<>>, warnings |-> <<>>]
    IN
    IF ~is_some(d.url)
    THEN [no EXCEPT !.warnings = <<ExpectedUrl(Range(d.start, end))>>]
    ELSE IF ~is_some(d.url_range)
    THEN [no EXCEPT !.warnings = <<Unexpected(Range(start, end),
                                              Range(d.start, end))>>]
    ELSE
    LET request == unwrap(d.url)
        url_range == unwrap(d.url_range)
    IN
    IF d.layer.tag = "EndLayer" /\ url_range.start > d.layer.range.start
    THEN [no EXCEPT !.warnings = <<ExpectedBefore(d.layer.range, url_range)>>]
    ELSE IF d.supports.tag = "EndSupports" /\ url_range.start > d.supports.range.start
    THEN [no EXCEPT !.warnings = <<ExpectedBefore(d.supports.range, url_range)>>]
    ELSE
    LET layer == IF d.layer.tag = "EndLayer" THEN Some(d.layer.value) ELSE None
        supports == IF d.supports.tag = "EndSupports"
                    THEN Some(d.supports.value) ELSE None
        open == semicolon_supports(d, start, end)
    IN
    IF /\ is_some(layer_range(d))
       /\ is_some(supports_range(d))
       /\ unwrap(layer_range(d)).start > unwrap(layer_range(d)).start
    THEN [no EXCEPT !.warnings = open \o <<ExpectedBefore(unwrap(supports_range(d)),
                                                          unwrap(layer_range(d)))>>]
    ELSE
    LET last_end == IF is_some(supports_range(d)) THEN unwrap(supports_range(d)).end
                    ELSE IF is_some(layer_range(d)) THEN unwrap(layer_range(d)).end
                    ELSE url_range.end
        media == get_media(last_end, start)
    IN  [dependencies |-> <<Import(request, Range(d.start, end), layer, supports, media)>>,
         warnings |-> open]

\* semicolon(), scope InAtImport: the dependencies and warnings emitted.
semicolon_InAtImport(d, start, end) ==
    LET no == [dependencies |-> <<>>, warnings |-> <<>>]
    IN
    IF ~is_some(d.url)
    THEN [no EXCEPT !.warnings = <<ExpectedUrl(Range(d.start, end))>>]
    ELSE IF ~is_some(d.url_range)
    THEN [no EXCEPT !.warnings = <<Unexpected(Range(start, end),
                                              Range(d.start, end))>>]
    ELSE
    LET request == unwrap(d.url)
        url_range == unwrap(d.url_range)
    IN
    IF d.layer.tag = "EndLayer" /\ url_range.start > d.layer.range.start
    THEN [no EXCEPT !.warnings = <<ExpectedBefore(d.layer.range, url_range)>>]
    ELSE IF d.supports.tag = "EndSupports" /\ url_range.start > d.supports.range.start
    THEN [no EXCEPT !.warnings = <<ExpectedBefore(d.supports.range, url_range)>>]
    ELSE
    LET layer == IF d.layer.tag = "EndLayer" THEN Some(d.layer.value) ELSE None
        supports == IF d.supports.tag = "EndSupports"
                    THEN Some(d.supports.value) ELSE None
        open == semicolon_supports(d, start, end)
    IN
    IF /\ is_some(layer_range(d))
       /\ is_some(supports_range(d))
       /\ unwrap(layer_range(d)).start > unwrap(supports_range(d)).start
    THEN [no EXCEPT !.warnings = open \o <<ExpectedBefore(unwrap(supports_range(d)),
                                                          unwrap(layer_range(d)))>>]
    ELSE
    LET last_end == IF is_some(supports_range(d)) THEN unwrap(supports_range(d)).end
                    ELSE IF is_some(layer_range(d)) THEN unwrap(layer_range(d)).end
                    ELSE url_range.end
        media == get_media(last_end, start)
    IN  [dependencies |-> <<Import(request, Range(d.start, end), layer, supports, media)>>,
         warnings |-> open]

\* Variant of semicolon_scope: only a rule that was opened is closed.
semicolon_scope_import_only ==
    IF scope.kind = "InAtImport" THEN TopLevel ELSE scope

\* The scope after a `;`.
semicolon_scope ==
    IF scope.kind \in {"InAtImport", "AtImportInvalid", "AtNamespaceInvalid"}
    THEN TopLevel
    ELSE scope

semicolon ==
    \E start \in pos..(pos + MaxGap) :
        LET end == start + 1
            e == Event("semicolon", "", start, end)
        IN  /\ Lexes(";", start, end)
            /\ scope' = semicolon_scope
            /\ IF scope.kind = "InAtImport"
               THEN LET r == semicolon_InAtImport(scope.data, start, end)
                    IN  Returns(e, r.dependencies, r.warnings,
                                [HistNow EXCEPT !.rule = "ended"])
               ELSE Returns(e, <<>>, <<>>,
                            [HistNow EXCEPT !.rule = IF @ = "inner"
                                                     THEN "inner_ended" ELSE @])
            /\ UNCHANGED <<mode_data, block_nesting_level, allow_import_at_rule,
                           balanced, is_next_rule_prelude>>

\* ------------------------------------------------------------ brackets
left_parenthesis ==
    \E start \in pos..(pos + MaxGap) :
        LET end == start + 1
        IN  /\ Lexes("(", start, end)
            /\ Len(balanced) < MaxDepth
            /\ balanced' = Append(balanced, BalancedItem_new_other(start, end))
            /\ Returns(Event("left_parenthesis", "", start, end), <<>>, <<>>, HistNow)
            /\ UNCHANGED <<mode_data, scope, block_nesting_level,
                           allow_import_at_rule, is_next_rule_prelude>>

\* right_parenthesis with the stack not empty and a Local or Global item
\* popped under CSS Modules: the mode after.
\* Variant of right_parenthesis_mode: the new stack top is not consulted.
right_parenthesis_mode_none(m, rest) == [m EXCEPT !.current = "None"]

right_parenthesis_mode(m, rest) ==
    IF Len(rest) > 0 /\ rest[Len(rest)].kind = "Local"
    THEN [m EXCEPT !.current = "Local"]
    ELSE IF Len(rest) > 0 /\ rest[Len(rest)].kind = "Global"
    THEN [m EXCEPT !.current = "Global"]
    ELSE [m EXCEPT !.current = "None"]

\* right_parenthesis, scope InAtImport, any other item popped: the import
\* data after.
right_parenthesis_InAtImport(d, last, end) ==
    LET not_in_supports == ~in_supports(d)
    IN  IF last.kind = "Url" /\ not_in_supports
        THEN [d EXCEPT !.url_range = Some(Range(last.range.start, end))]
        ELSE IF last.kind = "Layer" /\ not_in_supports
        THEN [d EXCEPT !.layer = [tag |-> "EndLayer",
                                  value |-> slice(last.range.end, end - 1),
                                  range |-> Range(last.range.start, end)]]
        ELSE IF last.kind = "Supports"
        THEN [d EXCEPT !.supports = [tag |-> "EndSupports",
                                     value |-> slice(last.range.end, end - 1),
                                     range |-> Range(last.range.start, end)]]
        ELSE d

\* Variant of right_parenthesis_unbalanced: a `)` that closes nothing ends
\* the pass.
right_parenthesis_unbalanced_faults == FALSE

\* right_parenthesis(), nothing to pop: the callback returns Some(()).
right_parenthesis_unbalanced == TRUE

right_parenthesis ==
    \E start \in pos..(pos + MaxGap) :
        LET end == start + 1
            e == Event("right_parenthesis", "", start, end)
        IN  /\ Lexes(")", start, end)
            /\ IF Len(balanced) = 0
               THEN /\ UNCHANGED <<balanced, mode_data, scope>>
                    /\ IF right_parenthesis_unbalanced
                       THEN Returns(e, <<>>, <<>>, HistNow)
                       ELSE /\ pc' = "done"
                            /\ ev' = e
                            /\ dependencies' = <<>>
                            /\ warnings' = <<>>
                            /\ hist' = HistNow
                            /\ UNCHANGED <<pos, ink, ahead>>
               ELSE LET last == balanced[Len(balanced)]
                        rest == SubSeq(balanced, 1, Len(balanced) - 1)
                    IN  /\ balanced' = rest
                        /\ IF is_some(mode_data) /\ last.kind \in {"Local", "Global"}
                           THEN /\ mode_data' =
                                       Some(right_parenthesis_mode(unwrap(mode_data), rest))
                                /\ scope' = scope
                                /\ LET deps == <<Replace(EmptyStr, Range(start, end))>>
                                   IN  Returns(e, deps, <<>>,
                                               [HistNow EXCEPT
                                                  !.span = FALSE,
                                                  !.was = SubSeq(@, 1, Len(@) - 1),
                                                  !.closed = hist.was[Len(hist.was)]])
                           ELSE /\ mode_data' = mode_data
                                /\ scope' = IF scope.kind = "InAtImport"
                                            THEN InAtImport(right_parenthesis_InAtImport(
                                                                scope.data, last, end))
                                            ELSE scope
                                /\ Returns(e, <<>>, <<>>, HistNow)
            /\ UNCHANGED <<block_nesting_level, allow_import_at_rule,
                           is_next_rule_prelude>>

\* Variant of left_curly_bracket: a `{` in an at-rule forbids @import too.
left_curly_bracket_any_scope ==
    \E start \in pos..(pos + MaxGap) :
        LET end == start + 1
        IN  /\ Lexes("{", start, end)
            /\ IF scope.kind = "TopLevel"
               THEN /\ allow_import_at_rule' = FALSE
                    /\ scope' = InBlock
                    /\ block_nesting_level' = 1
               ELSE IF scope.kind = "InBlock"
               THEN /\ block_nesting_level < MaxNest
                    /\ block_nesting_level' = block_nesting_level + 1
                    /\ UNCHANGED <<allow_import_at_rule, scope>>
               ELSE /\ allow_import_at_rule' = FALSE
                    /\ UNCHANGED <<scope, block_nesting_level>>
            /\ Returns(Event("left_curly_bracket", "", start, end), <<>>, <<>>,
                       [HistNow EXCEPT !.curly = @ \/ scope.kind \in {"TopLevel",
                                                                     "InBlock"}])
            /\ UNCHANGED <<mode_data, balanced, is_next_rule_prelude>>

left_curly_bracket ==
    \E start \in pos..(pos + MaxGap) :
        LET end == start + 1
        IN  /\ Lexes("{", start, end)
            /\ IF scope.kind = "TopLevel"
               THEN /\ allow_import_at_rule' = FALSE
                    /\ scope' = InBlock
                    /\ block_nesting_level' = 1
               ELSE IF scope.kind = "InBlock"
               THEN /\ block_nesting_level < MaxNest
                    /\ block_nesting_level' = block_nesting_level + 1
                    /\ UNCHANGED <<allow_import_at_rule, scope>>
               ELSE UNCHANGED <<allow_import_at_rule, scope, block_nesting_level>>
            /\ Returns(Event("left_curly_bracket", "", start, end), <<>>, <<>>,
                       [HistNow EXCEPT !.curly = @ \/ scope.kind \in {"TopLevel",
                                                                     "InBlock"}])
            /\ UNCHANGED <<mode_data, balanced, is_next_rule_prelude>>

\* Variant of decrement: a `}` closes two blocks.
decrement_by_two(n) == n - 2

\* block_nesting_level -= 1 on a u32, wrapping as a release build does. The
\* counter is held as its 32-bit pattern read as a signed number, so that
\* u32::MAX, the result of 0 - 1, is -1.
decrement(n) == n - 1

right_curly_bracket ==
    \E start \in pos..(pos + MaxGap) :
        LET end == start + 1
        IN  /\ Lexes("}", start, end)
            /\ IF scope.kind = "InBlock"
               THEN /\ block_nesting_level' = decrement(block_nesting_level)
                    /\ scope' = IF decrement(block_nesting_level) = 0
                                THEN TopLevel ELSE scope
               ELSE UNCHANGED <<block_nesting_level, scope>>
            /\ Returns(Event("right_curly_bracket", "", start, end), <<>>, <<>>, HistNow)
            /\ UNCHANGED <<mode_data, allow_import_at_rule, balanced,
                           is_next_rule_prelude>>

\* ------------------------------------------------------------ selectors
\* Variant of class_body: local by default also without CSS Modules.
class_body_unchecked(start, end) ==
    IF ~is_some(mode_data) \/ is_local_mode(unwrap(mode_data))
    THEN <<LocalIdent(slice(start + 1, end), Range(start + 1, end))>>
    ELSE <<>>

\* class() and id(): the dependencies emitted.
class_body(start, end) ==
    IF ~is_some(mode_data)
    THEN <<>>
    ELSE IF is_local_mode(unwrap(mode_data))
    THEN <<LocalIdent(slice(start + 1, end), Range(start + 1, end))>>
    ELSE <<>>

\* Variant of id_body: the range of the name runs one unit past the token.
id_body_past(start, end) ==
    IF ~is_some(mode_data)
    THEN <<>>
    ELSE IF is_local_mode(unwrap(mode_data))
    THEN <<LocalIdent(slice(start + 1, end), Range(start + 1, end + 1))>>
    ELSE <<>>

id_body(start, end) ==
    IF ~is_some(mode_data)
    THEN <<>>
    ELSE IF is_local_mode(unwrap(mode_data))
    THEN <<LocalIdent(slice(start + 1, end), Range(start + 1, end))>>
    ELSE <<>>

class ==
    \E start \in pos..(pos + MaxGap) :
        LET end == start + 2
            deps == class_body(start, end)
        IN  /\ Lexes(".", start, end)
            /\ Returns(Event("class", "", start, end), deps, <<>>, HistNow)
            /\ UNCHANGED visitor

id ==
    \E start \in pos..(pos + MaxGap) :
        LET end == start + 2
            deps == id_body(start, end)
        IN  /\ Lexes("#", start, end)
            /\ Returns(Event("id", "", start, end), deps, <<>>, HistNow)
            /\ UNCHANGED visitor

\* pseudo_function(): the mode data after.
pseudo_function_mode(m, name) ==
    IF name = ":global"
    THEN [m EXCEPT !.current = "Global"]
    ELSE IF name = ":local"
    THEN [m EXCEPT !.current = "Local"]
    ELSE m

pseudo_function ==
    \E name0 \in PseudoFunctionNames, start \in pos..(pos + MaxGap) :
        LET end == start + 2
            name == to_ascii_lowercase(name0)
            deps == IF is_some(mode_data) /\ name \in {":global", ":local"}
                    THEN <<Replace(EmptyStr, Range(start, end))>>
                    ELSE <<>>
        IN  /\ Lexes(":", start, end)
            /\ Len(balanced) < MaxDepth
            /\ balanced' = Append(balanced, BalancedItem_new(name, start, end))
            /\ mode_data' = IF is_some(mode_data)
                            THEN Some(pseudo_function_mode(unwrap(mode_data), name))
                            ELSE mode_data
            /\ Returns(Event("pseudo_function", name0, start, end), deps, <<>>,
                       [HistNow
                          EXCEPT !.span = IF name = ":global" THEN TRUE
                                          ELSE IF name = ":local" THEN FALSE
                                          ELSE @,
                                 !.was = IF is_some(mode_data)
                                            /\ name \in {":global", ":local"}
                                         THEN Append(@, Locality)
                                         ELSE @])
            /\ UNCHANGED <<scope, block_nesting_level, allow_import_at_rule,
                           is_next_rule_prelude>>

\* comma(): the mode data after.
comma_mode(m) == [m EXCEPT !.current = "None"]

comma ==
    \E start \in pos..(pos + MaxGap) :
        LET end == start + 1
        IN  /\ Lexes(",", start, end)
            /\ mode_data' = IF is_some(mode_data)
                            THEN Some(comma_mode(unwrap(mode_data)))
                            ELSE mode_data
            /\ Returns(Event("comma", "", start, end), <<>>, <<>>, HistNow)
            /\ UNCHANGED <<scope, block_nesting_level, allow_import_at_rule,
                           balanced, is_next_rule_prelude>>

\* ------------------------------------------------------- sub-parsers
\* What a sub-parser leaves: ok (Some(()) or None), the cursor, ink, the
\* character it stopped on, and what it emitted.
Stops(c) == IF c \in {"", ")", ";", "}"} THEN c ELSE "x"

\* lexer.cur() at offset q, where the source shows c unless it ends there;
\* "eof" stands for None.
cur_at(q, c) == IF q >= SourceEnd THEN "eof" ELSE c

Parsed(p, i, c, deps, warns) ==
    [ok |-> TRUE, pos |-> p, ink |-> i, ahead |-> Stops(c),
     dependencies |-> deps, warnings |-> warns, open |-> FALSE]

\* A lexer call returned None (the input ended): the callback returns None
\* and the pass stops.
Failed == [ok |-> FALSE, pos |-> pos, ink |-> ink, ahead |-> "",
           dependencies |-> <<>>, warnings |-> <<>>, open |-> FALSE]

\* A callback that ran a sub-parser with result r.
Leaves(e, r, deps, h) ==
    /\ ev' = e
    /\ pos' = r.pos
    /\ ink' = r.ink
    /\ ahead' = r.ahead
    /\ pc' = IF r.ok THEN "lex" ELSE "done"
    /\ dependencies' = deps
    /\ warnings' = r.warnings
    /\ hist' = HistGap(h, e.start)

\* Units of a name, a property or a value.
MaxRun == 1

\* Variant of lex_local_var: the range of the LocalVar runs up to the `)`.
lex_local_var_to_paren(start, from, g1, c1, c2, k, g2, c3) ==
    LET minus_start == from + g1
        a1 == cur_at(minus_start, c1)
        a2 == cur_at(minus_start + 1, c2)
        mismatch == Parsed(minus_start, from, a1, <<>>,
                           <<Unexpected(Range(minus_start, minus_start + 2),
                                        Range(start, minus_start + 2))>>)
    IN  IF a1 = "eof" \/ a2 = "eof"
        THEN Failed
        ELSE IF a1 # "-" \/ a2 # "-"
        THEN mismatch
        ELSE
        LET start2 == minus_start + 2
            end == start2 + k
            cur == end + g2
            a3 == cur_at(cur, c3)
        IN  IF a3 = "eof"
            THEN Failed
            ELSE IF a3 # ")"
            THEN Parsed(cur, end, a3, <<>>,
                        <<Unexpected(Range(cur, cur + 1), Range(start2, cur + 1))>>)
            ELSE Parsed(cur, end, a3,
                        <<LocalVar(slice(start2, end), Range(minus_start, cur + 1))>>,
                        <<>>)

\* lex_local_var(lexer, start) with the cursor at from: g1 blanks, then c1
\* and, behind it, c2; a name of k units after `--`; g2 blanks, then c3.
lex_local_var(start, from, g1, c1, c2, k, g2, c3) ==
    LET minus_start == from + g1
        a1 == cur_at(minus_start, c1)
        a2 == cur_at(minus_start + 1, c2)
        mismatch == Parsed(minus_start, from, a1, <<>>,
                           <<Unexpected(Range(minus_start, minus_start + 2),
                                        Range(start, minus_start + 2))>>)
    IN  IF a1 = "eof" \/ a2 = "eof"
        THEN Failed
        ELSE IF a1 # "-" \/ a2 # "-"
        THEN mismatch
        ELSE
        LET start2 == minus_start + 2
            end == start2 + k
            cur == end + g2
            a3 == cur_at(cur, c3)
        IN  IF a3 = "eof"
            THEN Failed
            ELSE IF a3 # ")"
            THEN Parsed(cur, end, a3, <<>>,
                        <<Unexpected(Range(cur, cur + 1), Range(start2, cur + 1))>>)
            ELSE Parsed(cur, end, a3,
                        <<LocalVar(slice(start2, end), Range(minus_start, end))>>,
                        <<>>)

\* lex_local_var_decl(lexer, name, start, end): g1 blanks, then c1; after the
\* `:`, g2 blanks, a value of m units up to c2; after a `;`, g3 blanks and c3.
lex_local_var_decl(start, end, g1, c1, g2, m, c2, g3, c3) ==
    LET cur == end + g1
        a1 == cur_at(cur, c1)
    IN  IF a1 = "eof"
        THEN Failed
        ELSE IF a1 # ":"
        THEN Parsed(cur, end, a1, <<>>,
                    <<Unexpected(Range(cur, cur + 1), Range(start, cur + 1))>>)
        ELSE
        LET value_start == cur + 1 + g2
            value_end == value_start + m
            a2 == cur_at(value_end, c2)
            a3 == cur_at(value_end + 1 + g3, c3)
            dep == LocalVarDecl(Range(start, end), slice(start + 2, end),
                                slice(value_start, value_end))
        IN  IF a2 = "eof"
            THEN Failed
            ELSE IF a2 = ";"
            THEN IF a3 = "eof"
                 THEN Failed
                 ELSE Parsed(value_end + 1 + g3, value_end + 1, a3, <<dep>>, <<>>)
            ELSE Parsed(value_end, IF m > 0 THEN value_end ELSE cur + 1, a2,
                        <<dep>>, <<>>)

\* ------------------------------------------------------------ function
function_InAtImport(d, name, start) ==
    IF name = "supports"
    THEN [d EXCEPT !.supports = [tag |-> "InSupports", start |-> start]]
    ELSE d

\* Whether function() runs lex_local_var.
function_lexes_var(name) ==
    /\ is_some(mode_data)
    /\ is_local_mode(unwrap(mode_data))
    /\ name = "var"

function ==
    \E name0 \in FunctionNames, start \in pos..(pos + MaxGap) :
        LET end == start + 2
            name == to_ascii_lowercase(name0)
            e == Event("function", name0, start, end)
        IN  /\ Lexes("a", start, end)
            /\ Len(balanced) < MaxDepth
            /\ balanced' = Append(balanced, BalancedItem_new(name, start, end))
            /\ scope' = IF scope.kind = "InAtImport"
                        THEN InAtImport(function_InAtImport(scope.data, name, start))
                        ELSE scope
            /\ IF function_lexes_var(name)
               THEN \E g1 \in 0..MaxGap, c1 \in {"-", ")", "x"}, c2 \in {"-", "x"} :
                    \E k \in 0..(IF c1 = "-" /\ c2 = "-" THEN MaxRun ELSE 0),
                       g2 \in 0..(IF c1 = "-" /\ c2 = "-" THEN MaxGap ELSE 0),
                       c3 \in (IF c1 = "-" /\ c2 = "-" THEN {")", ";", "x"} ELSE {")"}) :
                        LET r == lex_local_var(start, end, g1, c1, c2, k, g2, c3)
                        IN  Leaves(e, r, r.dependencies, HistNow)
               ELSE Returns(e, <<>>, <<>>, HistNow)
            /\ UNCHANGED <<mode_data, block_nesting_level, allow_import_at_rule,
                           is_next_rule_prelude>>

\* ------------------------------------------------------------ ident
\* Whether ident() runs lex_local_var_decl.
ident_lexes_decl(name) ==
    /\ scope.kind = "InBlock"
    /\ is_some(mode_data)
    /\ is_local_mode(unwrap(mode_data))
    /\ name \in {"--x"}

\* Variant of ident_InAtImport: a bare `layer` after the url is no layer.
ident_InAtImport_before_url(d, name, start, end) ==
    IF to_ascii_lowercase(name) = "layer" /\ ~is_some(d.url)
    THEN [d EXCEPT !.layer = [tag |-> "EndLayer", value |-> EmptyStr,
                              range |-> Range(start, end)]]
    ELSE d

\* ident(), scope InAtImport: the import data after.
ident_InAtImport(d, name, start, end) ==
    IF to_ascii_lowercase(name) = "layer"
    THEN [d EXCEPT !.layer = [tag |-> "EndLayer", value |-> EmptyStr,
                              range |-> Range(start, end)]]
    ELSE d

\* An ident: one unit, or `-`, `-` and a name for a custom property.
ident ==
    \E name \in IdentNames, start \in pos..(pos + MaxGap) :
        LET end == start + (IF name = "--x" THEN 3 ELSE 1)
            e == Event("ident", name, start, end)
        IN  /\ Lexes("a", start, end)
            /\ scope' = IF scope.kind = "InAtImport"
                        THEN InAtImport(ident_InAtImport(scope.data, name, start, end))
                        ELSE scope
            /\ IF ident_lexes_decl(name)
               THEN \E g1 \in 0..MaxGap, c1 \in {":", ";", "}", "x"} :
                    \E g2 \in 0..(IF c1 = ":" THEN MaxGap ELSE 0),
                       m \in 0..(IF c1 = ":" THEN MaxRun ELSE 0),
                       c2 \in (IF c1 = ":" THEN {";", "}"} ELSE {"}"}) :
                    \E g3 \in 0..(IF c1 = ":" /\ c2 = ";" THEN MaxGap ELSE 0),
                       c3 \in (IF c1 = ":" /\ c2 = ";" THEN {"}", "x"} ELSE {"}"}) :
                        LET r == lex_local_var_decl(start, end, g1, c1, g2, m, c2,
                                                    g3, c3)
                        IN  Leaves(e, r, r.dependencies, HistNow)
               ELSE Returns(e, <<>>, <<>>, HistNow)
            /\ UNCHANGED <<mode_data, block_nesting_level, allow_import_at_rule,
                           balanced, is_next_rule_prelude>>

\* ------------------------------------------------------------ pseudo_class
\* pseudo_class(), `:global` or `:local`: the mode data after.
pseudo_class_mode(m, name) ==
    IF name = ":global"
    THEN [m EXCEPT !.current = "Global"]
    ELSE [m EXCEPT !.current = "Local"]

\* Variant of pseudo_class_local: the blanks are looked at, not consumed.
pseudo_class_local_peeked(name, start, end, g, comment) ==
    LET end2 == end + g
        comments == IF comment THEN slice(end, end2) ELSE EmptyStr
    IN  IF cur_at(end2, "x") = "eof"
        THEN Failed
        ELSE Parsed(end, end, "", <<Replace(comments, Range(start, end2))>>, <<>>)

\* `:global` or `:local` followed by g units of blanks and comments (with a
\* comment among them or not).
pseudo_class_local(name, start, end, g, comment) ==
    LET end2 == end + g
        comments == IF comment THEN slice(end, end2) ELSE EmptyStr
    IN  IF cur_at(end2, "x") = "eof"
        THEN Failed
        ELSE Parsed(end2, end, "x", <<Replace(comments, Range(start, end2))>>, <<>>)

\* lex_icss_export(lexer, start) up to its loop: g1 blanks, then c; after the
\* `{`, g2 blanks. open: the parser is at the head of the loop.
lex_icss_export(start, from, g1, c, g2) ==
    LET cur == from + g1
        a == cur_at(cur, c)
    IN  IF a = "eof"
        THEN Failed
        ELSE IF a # "{"
        THEN Parsed(cur, from, a, <<Replace(EmptyStr, Range(start, cur))>>,
                    <<Unexpected(Range(cur, cur + 1), Range(start, cur + 1))>>)
        ELSE IF cur_at(cur + 1 + g2, "x") = "eof"
        THEN Failed
        ELSE [Parsed(cur + 1 + g2, cur + 1, "", <<>>, <<>>) EXCEPT !.open = TRUE]

pseudo_class ==
    \E name0 \in PseudoClassNames, start \in pos..(pos + MaxGap) :
        LET end == start + 1
            name == to_ascii_lowercase(name0)
            e == Event("pseudo_class", name0, start, end)
        IN  /\ Lexes(":", start, end)
            /\ IF ~is_some(mode_data)
               THEN /\ Returns(e, <<>>, <<>>, HistNow)
                    /\ mode_data' = mode_data
               ELSE IF name \in {":global", ":local"}
               THEN \E g \in 0..MaxGap :
                    \E comment \in (IF g > 0 THEN BOOLEAN ELSE {FALSE}) :
                        LET r == pseudo_class_local(name, start, end, g, comment)
                        IN  /\ Leaves(e, r, r.dependencies,
                                      [HistNow EXCEPT !.span = IF r.ok /\ name = ":local"
                                                               THEN FALSE ELSE @])
                            /\ mode_data' = IF r.ok
                                            THEN Some(pseudo_class_mode(
                                                          unwrap(mode_data), name))
                                            ELSE mode_data
               ELSE IF scope.kind = "TopLevel" /\ name = ":export"
               THEN \E g1 \in 0..MaxGap, c \in {"{", ";", "x"} :
                    \E g2 \in 0..(IF c = "{" THEN MaxGap ELSE 0) :
                        LET r == lex_icss_export(start, end, g1, c, g2)
                        IN  /\ ev' = e
                            /\ pos' = r.pos
                            /\ ink' = r.ink
                            /\ ahead' = r.ahead
                            /\ pc' = IF r.open THEN "export"
                                     ELSE IF r.ok THEN "lex" ELSE "done"
                            /\ dependencies' = r.dependencies
                            /\ warnings' = r.warnings
                            /\ hist' = HistGap([HistNow EXCEPT !.curly = @ \/ r.open],
                                                e.start)
                            /\ mode_data' = mode_data
               ELSE /\ Returns(e, <<>>, <<>>, HistNow)
                    /\ mode_data' = mode_data
            /\ UNCHANGED <<scope, block_nesting_level, allow_import_at_rule,
                           balanced, is_next_rule_prelude>>

\* Variant of lex_icss_export_entry: the Replace of the block stops at its `}`.
lex_icss_export_entry_short(start, c0, p, tb, gc, c1, g2, v, tv, c2, g3) ==
    LET prop_start == pos
        prop_end == prop_start + p + tb
        cur == prop_end + gc
        a1 == cur_at(cur, c1)
        value_start == cur + 1 + g2
        value_end == value_start + v + tv
        a2 == cur_at(value_end, c2)
        next == value_end + 1 + g3
        dep == ICSSExport(slice(prop_start, prop_end - tb),
                          slice(value_start, value_end - tv))
    IN  IF c0 = "}"
        THEN Parsed(pos + 1, pos + 1, "", <<Replace(EmptyStr, Range(start, pos))>>,
                    <<>>)
        ELSE IF a1 = "eof"
        THEN Failed
        ELSE IF a1 # ":"
        THEN Parsed(cur, IF p > 0 THEN prop_start + p ELSE ink, a1,
                    <<Replace(EmptyStr, Range(start, cur))>>,
                    <<Unexpected(Range(cur, cur + 1), Range(prop_start, cur + 1))>>)
        ELSE IF a2 = "eof"
        THEN Failed
        ELSE IF a2 = ";"
        THEN IF cur_at(next, "x") = "eof"
             THEN Failed
             ELSE [Parsed(next, value_end + 1, "", <<dep>>, <<>>) EXCEPT !.open = TRUE]
        ELSE [Parsed(value_end, IF v > 0 THEN value_start + v ELSE cur + 1, a2,
                     <<dep>>, <<>>)
                EXCEPT !.open = TRUE]

\* Variant of lex_icss_export_entry: behind a `;` the cursor is put back at
\* the property.
lex_icss_export_entry_again(start, c0, p, tb, gc, c1, g2, v, tv, c2, g3) ==
    LET prop_start == pos
        prop_end == prop_start + p + tb
        cur == prop_end + gc
        a1 == cur_at(cur, c1)
        value_start == cur + 1 + g2
        value_end == value_start + v + tv
        a2 == cur_at(value_end, c2)
        next == value_end + 1 + g3
        dep == ICSSExport(slice(prop_start, prop_end - tb),
                          slice(value_start, value_end - tv))
    IN  IF c0 = "}"
        THEN Parsed(pos + 1, pos + 1, "", <<Replace(EmptyStr, Range(start, pos + 1))>>,
                    <<>>)
        ELSE IF a1 = "eof"
        THEN Failed
        ELSE IF a1 # ":"
        THEN Parsed(cur, IF p > 0 THEN prop_start + p ELSE ink, a1,
                    <<Replace(EmptyStr, Range(start, cur))>>,
                    <<Unexpected(Range(cur, cur + 1), Range(prop_start, cur + 1))>>)
        ELSE IF a2 = "eof"
        THEN Failed
        ELSE IF a2 = ";"
        THEN IF cur_at(next, "x") = "eof"
             THEN Failed
             ELSE [Parsed(prop_start, ink, "", <<dep>>, <<>>) EXCEPT !.open = TRUE]
        ELSE [Parsed(value_end, IF v > 0 THEN value_start + v ELSE cur + 1, a2,
                     <<dep>>, <<>>)
                EXCEPT !.open = TRUE]

\* One turn of the loop of lex_icss_export, in the callback ev: the block
\* ends (c0 is `}`) or an entry is read: a property of p units and tb blanks
\* behind it, gc comments, then c1; after the `:`, g2 blanks, a value of v
\* units and tv blanks behind it up to c2; after a `;`, g3 blanks.
lex_icss_export_entry(start, c0, p, tb, gc, c1, g2, v, tv, c2, g3) ==
    LET prop_start == pos
        prop_end == prop_start + p + tb
        cur == prop_end + gc
        a1 == cur_at(cur, c1)
        value_start == cur + 1 + g2
        value_end == value_start + v + tv
        a2 == cur_at(value_end, c2)
        next == value_end + 1 + g3
        dep == ICSSExport(slice(prop_start, prop_end - tb),
                          slice(value_start, value_end - tv))
    IN  IF c0 = "}"
        THEN Parsed(pos + 1, pos + 1, "", <<Replace(EmptyStr, Range(start, pos + 1))>>,
                    <<>>)
        ELSE IF a1 = "eof"
        THEN Failed
        ELSE IF a1 # ":"
        THEN Parsed(cur, IF p > 0 THEN prop_start + p ELSE ink, a1,
                    <<Replace(EmptyStr, Range(start, cur))>>,
                    <<Unexpected(Range(cur, cur + 1), Range(prop_start, cur + 1))>>)
        ELSE IF a2 = "eof"
        THEN Failed
        ELSE IF a2 = ";"
        THEN IF cur_at(next, "x") = "eof"
             THEN Failed
             ELSE [Parsed(next, value_end + 1, "", <<dep>>, <<>>) EXCEPT !.open = TRUE]
        ELSE [Parsed(value_end, IF v > 0 THEN value_start + v ELSE cur + 1, a2,
                     <<dep>>, <<>>)
                EXCEPT !.open = TRUE]

export_entry ==
    /\ pc = "export"
    /\ \E c0 \in (IF ahead = "" THEN {"}", "x"} ELSE {ahead}) :
       \E p \in 0..(IF c0 = "x" THEN MaxRun ELSE 0),
          gc \in 0..(IF c0 = "x" THEN MaxGap ELSE 0),
          c1 \in (IF c0 = "x" THEN {":", ";", "}"} ELSE {":"}) :
       \E tb \in 0..(IF p > 0 THEN MaxGap ELSE 0),
          g2 \in 0..(IF c0 = "x" /\ c1 = ":" THEN MaxGap ELSE 0),
          v \in 0..(IF c0 = "x" /\ c1 = ":" THEN MaxRun ELSE 0),
          c2 \in (IF c0 = "x" /\ c1 = ":" THEN {";", "}"} ELSE {"}"}) :
       \E tv \in 0..(IF v > 0 THEN MaxGap ELSE 0),
          g3 \in 0..(IF c0 = "x" /\ c1 = ":" /\ c2 = ";" THEN MaxGap ELSE 0) :
            LET r == lex_icss_export_entry(ev.start, c0, p, tb, gc, c1, g2, v, tv,
                                           c2, g3)
            IN  /\ pos' = r.pos
                /\ ink' = r.ink
                /\ ahead' = r.ahead
                /\ pc' = IF r.open THEN "export" ELSE IF r.ok THEN "lex" ELSE "done"
                /\ dependencies' = dependencies \o r.dependencies
                /\ warnings' = r.warnings
                /\ hist' = hist
    /\ UNCHANGED <<visitor, ev>>

Next ==
    \/ url
    \/ string
    \/ at_keyword
    \/ semicolon
    \/ left_parenthesis
    \/ right_parenthesis
    \/ left_curly_bracket
    \/ right_curly_bracket
    \/ class
    \/ id
    \/ pseudo_function
    \/ comma
    \/ function
    \/ ident
    \/ pseudo_class
    \/ export_entry

Spec == Init /\ [][Next]_vars

\* ================================================================ claims
\* The last callback was the `;` that ended an @import rule.
ImportEnded == ev.kind = "semicolon" /\ hist.rule = "ended"

\* The last callback met, in an open @import rule and outside supports(...),
\* a url(...) token or a string directly inside `url(`.
UrlSource ==
    /\ hist.rule = "import"
    /\ scope.kind = "InAtImport"
    /\ ~in_supports(scope.data)
    /\ (ev.kind = "url" \/ (ev.kind = "string" /\ inside_url))

\* The last callback met, in an open @import rule and outside supports(...),
\* a string that is not directly inside `url(`.
PlainString ==
    /\ hist.rule = "import"
    /\ scope.kind = "InAtImport"
    /\ ~in_supports(scope.data)
    /\ ev.kind = "string"
    /\ ~inside_url

\* C1: an @import rule that holds two url sources (url(...) tokens or quoted
\* url("...")) and is ended by `;` emits exactly one DuplicateUrl warning and
\* no dependency at all, in particular no Import.
C1_TwoUrlsNoDependency ==
    (ImportEnded /\ hist.sources = 2 /\ ~hist.plain)
        => (hist.dups = 1 /\ dependencies = <<>>)

\* C1, where the code departs: after the one DuplicateUrl the `;` still emits
\* the Import of the first url.
C1_ImportAfterDuplicate ==
    /\ ImportEnded
    /\ hist.sources = 2
    /\ ~hist.plain
    /\ hist.dups = 1
    /\ Has(dependencies, "Import")

\* C2: every @import at-keyword met after a `{` was opened at top level, as a
\* token or as the `{` of a `:export` block, produces exactly one
\* NotPrecededAtImport warning on the keyword and opens no import rule.
C2_ImportAfterBlockRejected ==
    (ev.kind = "at_keyword" /\ to_ascii_lowercase(ev.name) = "@import" /\ hist.curly)
        => /\ warnings = <<NotPrecededAtImport(Range(ev.start, ev.end))>>
           /\ scope.kind # "InAtImport"

\* C2, where the code departs: an @import after a `{` opens an import rule.
C2_ImportAfterBlockAccepted ==
    /\ ev.kind = "at_keyword"
    /\ hist.curly
    /\ scope.kind = "InAtImport"
    /\ scope.data.start = ev.start
    /\ warnings = <<>>

C4_SupportsShieldsImport ==
    [][(scope.kind = "InAtImport" /\ in_supports(scope.data)) =>
         /\ ev'.kind \in {"url", "string"} =>
                /\ scope'.kind = "InAtImport"
                /\ scope'.data.url = scope.data.url
                /\ scope'.data.url_range = scope.data.url_range
                /\ ~Has(warnings', "DuplicateUrl")
         /\ (/\ ev'.kind = "right_parenthesis"
             /\ Len(balanced) > 0
             /\ balanced[Len(balanced)].kind \in {"Url", "Layer"}) =>
                /\ scope'.kind = "InAtImport"
                /\ scope'.data.url_range = scope.data.url_range
                /\ scope'.data.layer = scope.data.layer]_vars

\* C4: a string directly inside a url( that is nested in the open supports(
\* was met and the import has no url.
C4_QuotedUrlInSupports ==
    /\ scope.kind = "InAtImport"
    /\ in_supports(scope.data)
    /\ ev.kind = "string"
    /\ inside_url
    /\ ~is_some(scope.data.url)

\* C5: with mode_data absent no Replace, LocalIdent, LocalVar, LocalVarDecl or
\* ICSSExport is ever emitted and no sub-parser moves the cursor: after every
\* callback the cursor is at the end of the token and the pass goes on.
C5_ModulesDisabled ==
    ~is_some(mode_data) =>
        /\ \A i \in DOMAIN dependencies :
               dependencies[i].t \notin {"Replace", "LocalIdent", "LocalVar",
                                         "LocalVarDecl", "ICSSExport"}
        /\ pos = ev.end
        /\ ahead = ""
        /\ pc = "lex"

\* C5: a `:export` pseudo-class was met at top level with mode_data absent.
C5_ExportWithoutModules ==
    /\ ~is_some(mode_data)
    /\ ev.kind = "pseudo_class"
    /\ ev.name = ":export"
    /\ scope.kind = "TopLevel"

\* C6: with CSS Modules and default mode local, no class or id between
\* `:global(` and its `)`, outside any `:local`, emits a LocalIdent, also
\* after a comma inside the parentheses.
C6_GlobalSpan ==
    (/\ is_some(mode_data)
     /\ unwrap(mode_data).default = "Local"
     /\ hist.span
     /\ ev.kind \in {"class", "id"})
        => ~Has(dependencies, "LocalIdent")

\* C6, where the code departs: a class or id inside `:global(` emits a
\* LocalIdent.
C6_LocalIdentInGlobalSpan ==
    /\ is_some(mode_data)
    /\ hist.span
    /\ ev.kind \in {"class", "id"}
    /\ Has(dependencies, "LocalIdent")

\* C7: outside parentheses, the next comma and the next semicolon each reset
\* the mode a `:global` or `:local` pseudo-class set: after either token
\* `current` is None.
C7_CommaSemicolonReset ==
    (is_some(mode_data) /\ balanced = <<>> /\ ev.kind \in {"comma", "semicolon"})
        => unwrap(mode_data).current = "None"

\* C7, where the code departs: after a semicolon the mode of a pseudo-class
\* is still in effect.
C7_ModeSurvivesSemicolon ==
    /\ is_some(mode_data)
    /\ balanced = <<>>
    /\ ev.kind = "semicolon"
    /\ unwrap(mode_data).current # "None"

\* C8: in a block a url(...) token emits Url{Function, the token, its
\* content}, a string whose innermost open bracket is url( emits Url{String,
\* the string with its quotes, the text between them}, one whose innermost
\* open bracket is image-set( emits the same with kind Function, empty
\* requests included; any other string emits nothing, and no Url is emitted
\* outside a block or by another token.
C8_UrlInBlock ==
    LET top == IF balanced = <<>> THEN "" ELSE balanced[Len(balanced)].kind
        request == slice(ev.start + 1, ev.end - 1)
        range == Range(ev.start, ev.end)
    IN  /\ ev.kind = "url" =>
               dependencies = IF scope.kind = "InBlock"
                              THEN <<Url(request, range, "Function")>>
                              ELSE <<>>
        /\ ev.kind = "string" =>
               dependencies = IF scope.kind = "InBlock" /\ top = "Url"
                              THEN <<Url(request, range, "String")>>
                              ELSE IF scope.kind = "InBlock" /\ top = "ImageSet"
                              THEN <<Url(request, range, "Function")>>
                              ELSE <<>>
        /\ Has(dependencies, "Url") =>
               ev.kind \in {"url", "string"} /\ scope.kind = "InBlock"

\* C8: an empty string directly inside image-set( in a block gave a Url.
C8_EmptyImageSetString ==
    /\ scope.kind = "InBlock"
    /\ ev.kind = "string"
    /\ balanced # <<>>
    /\ balanced[Len(balanced)].kind = "ImageSet"
    /\ Len(dependencies) = 1
    /\ dependencies[1].t = "Url"
    /\ is_empty(dependencies[1].request)

\* C9: the `;` that ends an @import rule emits ExpectedUrl, from the `@` of
\* @import to the end of the `;`, exactly when no url(...) token and no
\* string set the url before it; an empty url is a url.
C9_ExpectedUrl ==
    ImportEnded =>
        IF hist.sources = 0 /\ ~hist.plain
        THEN warnings = <<ExpectedUrl(Range(hist.start, ev.end))>>
        ELSE ~Has(warnings, "ExpectedUrl")

\* C9: an @import with one url source, an empty one, ended with its Import
\* and no warning.
C9_EmptyUrlImport ==
    /\ ImportEnded
    /\ hist.sources = 1
    /\ warnings = <<>>
    /\ Len(dependencies) = 1
    /\ dependencies[1].t = "Import"
    /\ is_empty(dependencies[1].request)

\* C10, as stated: once the url of an @import is set, every further url
\* source outside supports(...), a string outside `url(` included, emits
\* DuplicateUrl from the `@` of @import to the end of the token.
C10_EveryFurtherSource ==
    /\ (UrlSource /\ (hist.sources >= 2 \/ hist.plain))
           => warnings = <<DuplicateUrl(Range(hist.start, ev.end))>>
    /\ (PlainString /\ hist.sources >= 1)
           => warnings = <<DuplicateUrl(Range(hist.start, ev.end))>>

\* C10, amended: once the url of an @import is set, every further url(...)
\* token and every further string directly inside `url(`, outside
\* supports(...), emits DuplicateUrl from the `@` of @import to the end of the
\* token, and a first one emits none; a string outside `url(` never emits
\* DuplicateUrl.
C10_FurtherUrlSource ==
    /\ UrlSource =>
           warnings = IF hist.sources >= 2 \/ hist.plain
                      THEN <<DuplicateUrl(Range(hist.start, ev.end))>>
                      ELSE <<>>
    /\ PlainString => warnings = <<>>

\* C10: a string directly inside `url(`, the second url source of the rule,
\* emitted DuplicateUrl.
C10_QuotedDuplicate ==
    /\ UrlSource
    /\ ev.kind = "string"
    /\ hist.sources >= 2
    /\ Has(warnings, "DuplicateUrl")

\* The `;` of an @import rule whose url, url_range and layer are resolved is
\* being handled (the rule's data are those before the step).
LayerResolved ==
    /\ ev'.kind = "semicolon"
    /\ scope.kind = "InAtImport"
    /\ is_some(scope.data.url)
    /\ is_some(scope.data.url_range)
    /\ scope.data.layer.tag = "EndLayer"

\* C11, as stated: at the `;` of an @import whose url and layer are resolved,
\* a layer that starts after the url gives ExpectedBefore{should_after: layer
\* range, range: url range} and no Import, and a layer that does not start
\* after the url gives no ExpectedBefore for the pair.
C11_LayerAfterUrl ==
    [][LayerResolved =>
         LET layer == scope.data.layer.range
             url_range == unwrap(scope.data.url_range)
             w == ExpectedBefore(layer, url_range)
         IN  IF layer.start > url_range.start
             THEN warnings' = <<w>> /\ dependencies' = <<>>
             ELSE \A i \in DOMAIN warnings' : warnings'[i] # w]_vars

\* C11, amended: at the `;` of an @import whose url and layer are resolved,
\* a url that starts after the layer gives exactly ExpectedBefore{
\* should_after: layer range, range: url range} and no dependency, and a url
\* that does not start after the layer gives no ExpectedBefore for the pair.
C11_UrlAfterLayer ==
    [][LayerResolved =>
         LET layer == scope.data.layer.range
             url_range == unwrap(scope.data.url_range)
             w == ExpectedBefore(layer, url_range)
         IN  IF url_range.start > layer.start
             THEN warnings' = <<w>> /\ dependencies' = <<>>
             ELSE \A i \in DOMAIN warnings' : warnings'[i] # w]_vars

\* C11: the `;` of an @import whose bare `layer` keyword (one unit) comes
\* before its url emitted ExpectedBefore and nothing else.
C11_LayerBeforeUrlWarned ==
    /\ ImportEnded
    /\ dependencies = <<>>
    /\ Len(warnings) = 1
    /\ warnings[1].t = "ExpectedBefore"
    /\ warnings[1].should_after.end = warnings[1].should_after.start + 1
    /\ warnings[1].range.start > warnings[1].should_after.start

\* A bare `layer` keyword is met in an @import rule.
BareLayer ==
    /\ ev'.kind = "ident"
    /\ to_ascii_lowercase(ev'.name) = "layer"
    /\ scope.kind = "InAtImport"

C13_MediaTrimmed ==
    \A i \in DOMAIN dependencies :
        (/\ dependencies[i].t = "Import"
         /\ is_some(dependencies[i].media)
         /\ hist.sources = 1)
            => unwrap(dependencies[i].media)[1] \notin hist.gaps

\* C13, where the code departs: the media of the Import starts with a blank
\* or a comment.
C13_MediaLeadingBlank ==
    /\ ImportEnded
    /\ Len(dependencies) = 1
    /\ dependencies[1].t = "Import"
    /\ hist.sources = 1
    /\ warnings = <<>>
    /\ is_some(dependencies[1].media)
    /\ unwrap(dependencies[1].media)[1] \in hist.gaps

\* C14: every emitted Import is emitted by the `;` that ends the rule, and its
\* range runs from the `@` of the at-keyword that opened the rule to one past
\* that `;`. The rule an at-keyword @import opens starts at that keyword, and
\* right after any @import or @namespace at-keyword no rule opened by an
\* earlier keyword is left: the open rule, if any, starts at this keyword, and
\* @namespace leaves none open.
C14_ImportRange ==
    /\ scope.kind = "InAtImport" =>
           (hist.rule = "import" /\ scope.data.start = hist.start)
    /\ (ev.kind = "at_keyword"
            /\ to_ascii_lowercase(ev.name) \in {"@import", "@namespace"}) =>
           /\ scope.kind = "InAtImport" =>
                  (to_ascii_lowercase(ev.name) = "@import"
                      /\ scope.data.start = ev.start)
           /\ hist.rule = "import" => scope.kind = "InAtImport"
    /\ \A i \in DOMAIN dependencies :
           dependencies[i].t = "Import" =>
               /\ ImportEnded
               /\ dependencies[i].range = Range(hist.start, ev.end)

\* C14: an Import was emitted for a rule that does not start at offset 0,
\* after an earlier at-keyword.
C14_LaterImport ==
    /\ ImportEnded
    /\ Has(dependencies, "Import")
    /\ hist.start > 1

\* The ranges a dependency or a warning carries.
RangesOf(x) ==
    CASE x.t = "ICSSExport" -> {}
      [] x.t = "LocalVarDecl" -> {x.name_range}
      [] x.t = "Unexpected" -> {x.unexpected, x.range}
      [] x.t = "ExpectedBefore" -> {x.should_after, x.range}
      [] OTHER -> {x.range}

EmittedRanges(seq) == UNION {RangesOf(seq[i]) : i \in DOMAIN seq}

\* C15: every range emitted in a dependency or a warning satisfies
\* 0 <= start <= end <= length of the source.
C15_RangesInBounds ==
    \A r \in EmittedRanges(dependencies) \cup EmittedRanges(warnings) :
        0 <= r.start /\ r.start <= r.end /\ r.end <= SourceEnd

\* C15: var( met something else than a custom property name right at the end
\* of the source: its warning's ranges end at the length of the source.
C15_WarningAtSourceEnd ==
    /\ ev.kind = "function"
    /\ Len(warnings) = 1
    /\ warnings[1].t = "Unexpected"
    /\ warnings[1].unexpected.end = SourceEnd
    /\ warnings[1].range.start = ev.start

\* Two half-open ranges share a unit.
Overlap(a, b) == a.start < b.end /\ b.start < a.end

\* C16: no Replace range overlaps the range of a LocalIdent, LocalVar,
\* LocalVarDecl (name_range) or Url of the same pass. Every callback reads a
\* span of the source of its own: it starts at its token, which is not
\* before the cursor the callback before left, and ends at the cursor it
\* leaves (the turns of the :export loop belong to the one `:export`
\* callback); the ranges a callback emits lie in its span, so the ranges of
\* two callbacks share no unit, and a Replace overlaps none of the other
\* ranges of its own callback.
C16_ReplaceApart ==
    [][/\ pos <= pos'
       /\ pc = "lex" => pos <= ev'.start
       /\ pc = "export" => ev' = ev
       /\ \A i \in DOMAIN dependencies' :
              dependencies'[i].t \in {"Replace", "LocalIdent", "LocalVar",
                                      "LocalVarDecl", "Url"} =>
                  \A r \in RangesOf(dependencies'[i]) :
                      ev'.start <= r.start /\ r.end <= pos'
       /\ \A i, j \in DOMAIN dependencies' :
              (/\ dependencies'[i].t = "Replace"
               /\ dependencies'[j].t \in {"LocalIdent", "LocalVar",
                                          "LocalVarDecl", "Url"}) =>
                  \A r \in RangesOf(dependencies'[j]) :
                      ~Overlap(dependencies'[i].range, r)]_vars

\* C16: a `:local` or `:global` pseudo-class emitted a Replace that extends
\* over the blanks after it, and the cursor is at the end of that range.
C16_ReplaceOverBlanks ==
    /\ ev.kind = "pseudo_class"
    /\ Len(dependencies) = 1
    /\ dependencies[1].t = "Replace"
    /\ dependencies[1].range.start = ev.start
    /\ dependencies[1].range.end > ev.end
    /\ pos = dependencies[1].range.end
    /\ to_ascii_lowercase(ev.name) \in {":local", ":global"}

\* C17: after an @import or @namespace at-keyword met inside an open block
\* and the `;` that ends it, the scope is InBlock again, at a nesting level
\* of one or more.
C17_BlockSurvivesNestedRule ==
    (ev.kind = "semicolon" /\ hist.rule = "inner_ended")
        => (scope = InBlock /\ block_nesting_level >= 1)

\* C17, where the code departs: the `;` that ends an at-rule met inside a block
\* leaves the scope TopLevel although the block is still open.
C17_BlockLostAfterNestedRule ==
    /\ ev.kind = "semicolon"
    /\ hist.rule = "inner_ended"
    /\ scope = TopLevel
    /\ block_nesting_level >= 1

\* The `:export` pseudo-class is met while the pass runs.
ExportMet ==
    /\ pc = "lex"
    /\ ev'.kind = "pseudo_class"
    /\ to_ascii_lowercase(ev'.name) = ":export"
    /\ is_some(mode_data)

\* C18: with CSS Modules enabled, `:export` met in a scope other than
\* TopLevel emits nothing and reads nothing; met at TopLevel and followed by
\* `{` it emits nothing before the entries. While the block is read no token
\* event is delivered and the visitor's state, scope TopLevel included, stays
\* as it is, and every turn either adds one ICSSExport after those emitted
\* (prop from the cursor, then the value, both inside what the turn read; a
\* value that runs up to the `}` ends at its last unit that is no blank), or
\* at the `}` adds the one Replace, with empty content, from the `:` of
\* `:export` to one past the `}`, and ends the callback, or meets a malformed
\* entry (one warning) or the end of the input.
C18_ExportBlock ==
    [][/\ (ExportMet /\ scope.kind # "TopLevel") =>
              /\ dependencies' = <<>>
              /\ warnings' = <<>>
              /\ pos' = ev'.end
              /\ pc' = "lex"
       /\ (ExportMet /\ pc' = "export") =>
              /\ scope = TopLevel
              /\ dependencies' = <<>>
              /\ warnings' = <<>>
       /\ pc = "export" =>
              /\ ev' = ev
              /\ scope' = TopLevel
              /\ UNCHANGED visitor
              /\ \/ /\ pc' = "export"
                    /\ warnings' = <<>>
                    /\ Len(dependencies') = Len(dependencies) + 1
                    /\ SubSeq(dependencies', 1, Len(dependencies)) = dependencies
                    /\ LET d == dependencies'[Len(dependencies')]
                       IN  /\ d.t = "ICSSExport"
                           /\ d.prop[1] = pos
                           /\ d.prop[1] <= d.prop[2]
                           /\ d.prop[2] < d.value[1]
                           /\ d.value[1] <= d.value[2]
                           /\ d.value[2] <= pos'
                           /\ (ahead' = "}" /\ d.value[1] < d.value[2]) =>
                                  d.value[2] = ink'
                 \/ /\ pc' = "lex"
                    /\ warnings' = <<>>
                    /\ pos' = pos + 1
                    /\ dependencies' =
                           Append(dependencies,
                                  Replace(EmptyStr, Range(ev.start, pos + 1)))
                 \/ /\ pc' = "lex"
                    /\ Len(warnings') = 1
                 \/ pc' = "done"]_vars

\* C18: a well-formed `:export` block with one entry was read: its ICSSExport,
\* then the Replace of the whole block.
C18_OneEntryExported ==
    /\ ev.kind = "pseudo_class"
    /\ to_ascii_lowercase(ev.name) = ":export"
    /\ pc = "lex"
    /\ scope = TopLevel
    /\ warnings = <<>>
    /\ Len(dependencies) = 2
    /\ dependencies[1].t = "ICSSExport"
    /\ dependencies[2] = Replace(EmptyStr, Range(ev.start, pos))

\* C19: a `)` met while the balanced stack is empty emits no dependency and
\* no warning, leaves the scope with its import data, the locality mode, the
\* stack and the rest of the visitor's state as they were, and the pass goes
\* on behind the `)`.
C19_UnbalancedParenthesis ==
    [][(ev'.kind = "right_parenthesis" /\ balanced = <<>>) =>
         /\ UNCHANGED visitor
         /\ dependencies' = <<>>
         /\ warnings' = <<>>
         /\ pc' = "lex"
         /\ pos' = ev'.end]_vars

\* C19: a `)` was met with the stack empty, inside an @import rule that has
\* its url.
C19_UnbalancedInImport ==
    /\ ev.kind = "right_parenthesis"
    /\ balanced = <<>>
    /\ scope.kind = "InAtImport"
    /\ is_some(scope.data.url_range)
    /\ unwrap(scope.data.url_range).end <= ev.start
    /\ scope.data.layer.tag = "None"
    /\ scope.data.supports.tag = "None"

\* C20: every `;` met in scope InAtImport, AtImportInvalid or
\* AtNamespaceInvalid leaves the scope TopLevel, whatever it emits; an Import
\* is emitted only by a `;` met in scope InAtImport, one at a time, and it
\* ends the rule, which only an at-keyword opens: at most one Import is
\* emitted for one @import at-keyword.
C20_SemicolonClosesRule ==
    [][/\ (/\ ev'.kind = "semicolon"
           /\ scope.kind \in {"InAtImport", "AtImportInvalid",
                               "AtNamespaceInvalid"}) => scope' = TopLevel
       /\ Has(dependencies', "Import") =>
              /\ ev'.kind = "semicolon"
              /\ scope.kind = "InAtImport"
              /\ Count(dependencies', "Import") = 1
              /\ hist.rule = "import"
              /\ hist'.rule = "ended"
       /\ (hist'.rule = "import"
              /\ (hist.rule # "import" \/ hist.start # hist'.start)) =>
              /\ ev'.kind = "at_keyword"
              /\ to_ascii_lowercase(ev'.name) = "@import"
              /\ hist'.start = ev'.start]_vars

\* C20: the `;` of an @import without a url emitted its warning and left the
\* scope TopLevel.
C20_ClosedOnWarning ==
    /\ ImportEnded
    /\ scope = TopLevel
    /\ dependencies = <<>>
    /\ Len(warnings) = 1
    /\ warnings[1].t = "ExpectedUrl"
    /\ hist.start > 0

\* C21: allow_import_at_rule is true when the pass starts; the only event that
\* changes it is a `{` met in scope TopLevel, which makes it false, so that
\* once false it stays false; a `{` met in scope InAtImport, AtImportInvalid
\* or AtNamespaceInvalid leaves it and the scope as they were.
C21_AllowImportAtRule ==
    [][/\ ev.kind = "start" => allow_import_at_rule
       /\ allow_import_at_rule' # allow_import_at_rule =>
              /\ ev'.kind = "left_curly_bracket"
              /\ scope.kind = "TopLevel"
              /\ ~allow_import_at_rule'
       /\ (ev'.kind = "left_curly_bracket" /\ scope.kind = "TopLevel") =>
              ~allow_import_at_rule'
       /\ (/\ ev'.kind = "left_curly_bracket"
           /\ scope.kind \in {"InAtImport", "AtImportInvalid",
                               "AtNamespaceInvalid"}) =>
              /\ allow_import_at_rule' = allow_import_at_rule
              /\ scope' = scope]_vars

\* C21: a `{` was met inside an @import rule and @import is still allowed.
C21_CurlyInsideImport ==
    /\ ev.kind = "left_curly_bracket"
    /\ scope.kind = "InAtImport"
    /\ allow_import_at_rule

\* C22: with CSS Modules enabled, a `)` that pops a Local or Global item sets
\* current to Local when the new stack top is a Local item, to Global when it
\* is a Global item and to None otherwise, emits exactly one Replace with
\* empty content over that `)` and no warning, and leaves the scope, import
\* data included, as it was; a `)` that pops an item of another kind leaves
\* the mode data as they were and emits no dependency.
C22_ClosingPseudoFunction ==
    [][(/\ ev'.kind = "right_parenthesis"
        /\ is_some(mode_data)
        /\ Len(balanced) > 0) =>
         LET last == balanced[Len(balanced)]
             rest == SubSeq(balanced, 1, Len(balanced) - 1)
             top == IF Len(rest) > 0 THEN rest[Len(rest)].kind ELSE "Other"
         IN  /\ balanced' = rest
             /\ IF last.kind \in {"Local", "Global"}
                THEN /\ mode_data' = Some([unwrap(mode_data) EXCEPT
                                              !.current = IF top \in {"Local", "Global"}
                                                          THEN top ELSE "None"])
                     /\ dependencies' = <<Replace(EmptyStr,
                                                  Range(ev'.start, ev'.end))>>
                     /\ warnings' = <<>>
                     /\ scope' = scope
                ELSE /\ mode_data' = mode_data
                     /\ dependencies' = <<>>]_vars

\* C22: a `)` popped a pseudo-function nested in a `:local(` that is still
\* open: the mode is Local again.
C22_BackToOuterLocal ==
    /\ ev.kind = "right_parenthesis"
    /\ Has(dependencies, "Replace")
    /\ Len(balanced) = 1
    /\ balanced[1].kind = "Local"
    /\ is_some(mode_data)
    /\ unwrap(mode_data).current = "Local"

\* C23: after the `)` that closes a `:local(` or `:global(` pseudo-function,
\* the locality in effect is the one that was in effect right before that
\* pseudo-function was opened.
C23_LocalityRestored ==
    (ev.kind = "right_parenthesis" /\ hist.closed # "-")
        => Locality = hist.closed

\* C23, where the code departs: the pseudo-function was opened under a
\* locality that differs from the default and did not come from the item
\* below it on the stack; after its `)` the default applies.
C23_LocalityLost ==
    /\ ev.kind = "right_parenthesis"
    /\ hist.closed # "-"
    /\ Locality # hist.closed
    /\ unwrap(mode_data).current = "None"

\* A `var(` function token is met in local mode.
VarMet ==
    /\ ev'.kind = "function"
    /\ to_ascii_lowercase(ev'.name) = "var"
    /\ is_some(mode_data)
    /\ is_local_mode(unwrap(mode_data))

\* C24, as stated: a `var(` met in local mode emits exactly one of a LocalVar
\* dependency and an Unexpected warning.
C24_OneOfVarOrWarning ==
    [][VarMet =>
         \/ /\ warnings' = <<>>
            /\ Len(dependencies') = 1
            /\ dependencies'[1].t = "LocalVar"
         \/ /\ dependencies' = <<>>
            /\ Len(warnings') = 1
            /\ warnings'[1].t = "Unexpected"]_vars

\* C24, amended: a `var(` met in local mode pushes its item and then either
\* meets the end of the input (nothing is emitted and the pass stops), or
\* emits one Unexpected warning and no dependency, or emits one LocalVar and
\* no warning: the LocalVar's range starts at the first hyphen, behind the
\* token, and ends at the end of the name, which is the text from two units
\* behind the start of the range; the cursor is left on the `)`, at or
\* behind the end of the range, for the right_parenthesis event to come.
C24_LocalVar ==
    [][VarMet =>
         /\ balanced' = Append(balanced,
                               BalancedItem_new_other(ev'.start, ev'.end))
         /\ \/ /\ pc' = "done"
               /\ dependencies' = <<>>
               /\ warnings' = <<>>
            \/ /\ pc' = "lex"
               /\ dependencies' = <<>>
               /\ Len(warnings') = 1
               /\ warnings'[1].t = "Unexpected"
            \/ /\ pc' = "lex"
               /\ warnings' = <<>>
               /\ Len(dependencies') = 1
               /\ LET d == dependencies'[1]
                  IN  /\ d.t = "LocalVar"
                      /\ d.range.start >= ev'.end
                      /\ d.name = slice(d.range.start + 2, d.range.end)
                      /\ d.range.start + 2 <= d.range.end
                      /\ ink' = d.range.end
                      /\ d.range.end <= pos'
                      /\ ahead' = ")"]_vars

\* C24: a `var(` met in local mode emitted a LocalVar with a name, and there
\* are blanks between the name and the `)` the cursor is on.
C24_VarBeforeParenthesis ==
    /\ ev.kind = "function"
    /\ Len(dependencies) = 1
    /\ dependencies[1].t = "LocalVar"
    /\ dependencies[1].name[1] < dependencies[1].name[2]
    /\ dependencies[1].range.end < pos
    /\ ahead = ")"

\* The `;` of an @import rule is met with the url, a layer and a supports
\* resolved, neither of the two starting before the url.
LayerAndSupports ==
    /\ scope.kind = "InAtImport"
    /\ ev'.kind = "semicolon"
    /\ is_some(scope.data.url)
    /\ is_some(scope.data.url_range)
    /\ scope.data.layer.tag = "EndLayer"
    /\ scope.data.supports.tag = "EndSupports"
    /\ unwrap(scope.data.url_range).start <= scope.data.layer.range.start
    /\ unwrap(scope.data.url_range).start <= scope.data.supports.range.start

\* C25: at the `;` of an @import whose url, layer and supports are resolved
\* and pass the url-ordering checks, a layer that starts after the supports
\* gives exactly ExpectedBefore{should_after: the supports range, range: the
\* layer range} and no Import; otherwise an Import carrying both the layer
\* and the supports is emitted, and no warning.
C25_LayerBeforeSupports ==
    [][LayerAndSupports =>
         LET d == scope.data
         IN  IF d.layer.range.start > d.supports.range.start
             THEN /\ dependencies' = <<>>
                  /\ warnings' = <<ExpectedBefore(d.supports.range, d.layer.range)>>
             ELSE /\ warnings' = <<>>
                  /\ Len(dependencies') = 1
                  /\ dependencies'[1].t = "Import"
                  /\ dependencies'[1].request = unwrap(d.url)
                  /\ dependencies'[1].layer = Some(d.layer.value)
                  /\ dependencies'[1].supports = Some(d.supports.value)]_vars

\* C25: an @import rule ended with an Import that carries a layer and a
\* supports.
C25_ImportWithBoth ==
    /\ ImportEnded
    /\ warnings = <<>>
    /\ Len(dependencies) = 1
    /\ dependencies[1].t = "Import"
    /\ is_some(dependencies[1].layer)
    /\ is_some(dependencies[1].supports)

\* C26: in an @import rule, outside supports(...), a string directly inside
\* `url(` met while no url is set sets the url and leaves url_range as it
\* was; the `)` that pops the Url item sets url_range to run from the start
\* of `url(` to the end of that `)`; a `;` met while the url is set and
\* url_range is not emits one Unexpected warning (unexpected: the `;`,
\* range: from `@import` to the end of the `;`) and no Import, and the
\* scope becomes TopLevel.
C26_QuotedUrl ==
    [][scope.kind = "InAtImport" =>
         LET d == scope.data
         IN  /\ (/\ ev'.kind = "string"
                 /\ inside_url
                 /\ ~in_supports(d)
                 /\ ~is_some(d.url))
                => /\ scope'.kind = "InAtImport"
                   /\ scope'.data.url = Some(slice(ev'.start + 1, ev'.end - 1))
                   /\ scope'.data.url_range = d.url_range
                   /\ warnings' = <<>>
             /\ (/\ ev'.kind = "right_parenthesis"
                 /\ inside_url
                 /\ ~in_supports(d))
                => /\ scope'.kind = "InAtImport"
                   /\ scope'.data.url = d.url
                   /\ scope'.data.url_range =
                          Some(Range(balanced[Len(balanced)].range.start, ev'.end))
                   /\ ev'.end = ev'.start + 1
             /\ (/\ ev'.kind = "semicolon"
                 /\ is_some(d.url)
                 /\ ~is_some(d.url_range))
                => /\ dependencies' = <<>>
                   /\ warnings' = <<Unexpected(Range(ev'.start, ev'.end),
                                               Range(d.start, ev'.end))>>
                   /\ scope' = TopLevel]_vars

\* C26: an @import rule whose only url source was a string inside a `url(`
\* that was never closed ended with one Unexpected warning and no Import.
C26_UrlNeverClosed ==
    /\ ImportEnded
    /\ hist.sources = 1
    /\ inside_url
    /\ dependencies = <<>>
    /\ Len(warnings) = 1
    /\ warnings[1].t = "Unexpected"
    /\ warnings[1].range.start = hist.start
    /\ scope = TopLevel

\* C27: in every reachable state scope = InBlock implies
\* block_nesting_level >= 1, so that the decrement of a `}` met in a block
\* never takes the counter below 0; such a `}` takes the counter down by one
\* and the scope to TopLevel exactly when the counter reached 0, and a `}`
\* met in another scope changes neither.
C27_NestingLevel ==
    [][/\ scope.kind = "InBlock" => block_nesting_level >= 1
       /\ scope'.kind = "InBlock" => block_nesting_level' >= 1
       /\ ev'.kind = "right_curly_bracket" =>
             IF scope.kind = "InBlock"
             THEN /\ block_nesting_level' = block_nesting_level - 1
                  /\ block_nesting_level' >= 0
                  /\ (scope' = TopLevel) <=> (block_nesting_level' = 0)
                  /\ scope' \in {TopLevel, InBlock}
             ELSE /\ block_nesting_level' = block_nesting_level
                  /\ scope' = scope]_vars

\* C27: a stray `}` is met at top level, after a block in which an at-rule
\* changed the scope: the counter is kept at 1, the scope is TopLevel.
C27_StrayCurlyAfterBlock ==
    /\ ev.kind = "right_curly_bracket"
    /\ scope = TopLevel
    /\ block_nesting_level = 1

\* C28: with CSS Modules enabled, once the `}` that closes a top-level
\* block has been processed (the scope went from InBlock to TopLevel),
\* current is None.
C28_LocalityEndsWithBlock ==
    [][(/\ is_some(mode_data)
        /\ ev'.kind = "right_curly_bracket"
        /\ scope = InBlock
        /\ scope' = TopLevel)
       => unwrap(mode_data').current = "None"]_vars

\* C28: with default mode local, the `}` that ends at offset 3 closed the
\* top-level block of a source that starts with `:global{}` or `{:global}`:
\* the scope is TopLevel again and current is still Global.
C28_LocalityLeaks ==
    /\ ev.kind = "right_curly_bracket"
    /\ ev.end = 3
    /\ hist.curly
    /\ scope = TopLevel
    /\ is_some(mode_data)
    /\ unwrap(mode_data).default = "Local"
    /\ unwrap(mode_data).current = "Global"

\* C29: in local mode, inside a block, a `var(` reference in the value of a
\* custom property declaration produces a LocalVar, which takes the value to
\* be lexed as tokens: the ident callback of the declaration leaves the
\* cursor no further than the start of a value that is not empty; and when
\* the sub-parser stopped at the end of the value, the cursor is on the `}`
\* that ended it, left for the right_curly_bracket event.
C29_ValueLexed ==
    [][(/\ ev'.kind = "ident"
        /\ Len(dependencies') = 1
        /\ dependencies'[1].t = "LocalVarDecl")
       => LET value == dependencies'[1].value
          IN  /\ value[1] < value[2] => pos' <= value[1]
              /\ pos' = value[2] => ahead' = "}"]_vars

\* C29: the ident callback of a custom property declaration in a block, in
\* local mode, emitted its LocalVarDecl and left the cursor on the `}`
\* behind a value that is not empty: no callback is made for the value.
C29_ValueSkipped ==
    /\ ev.kind = "ident"
    /\ scope = InBlock
    /\ Len(dependencies) = 1
    /\ dependencies[1].t = "LocalVarDecl"
    /\ dependencies[1].value[1] < dependencies[1].value[2]
    /\ pos = dependencies[1].value[2]
    /\ ahead = "}"

====
